---------------------------- MODULE Spec2Model ----------------------------
(***************************************************************************)
(* A model of the two command-line scripts of gpx-mode:                    *)
(*   gpx2html.py             draws one track segment on a folium map       *)
(*   plot_track_elevation.py draws the elevation profile of one segment    *)
(* One behaviour is one run of one script: the statements of the script    *)
(* are the actions, in program order, and an uncaught exception ends the   *)
(* run in pc = "failed".                                                   *)
(*                                                                         *)
(* Python values: a name that is not bound yet, and the value None, are    *)
(* the empty sequence <<>>; a bound value v is <<v>>.  Lists are           *)
(* sequences (index 0 of Python is index 1 here).  Latitudes and           *)
(* longitudes are integers in units of 0.01 degree, elevations integers    *)
(* in metres, distances integers in tenths of a grid unit.                 *)
(***************************************************************************)
EXTENDS Integers, Sequences, FiniteSets

\* Bounds of the explored inputs.
MaxTracks == 2
MaxSegs == 2
MaxShapePts == 1
MaxLen == 3

SeqUpTo(S, n) == UNION {[1..k -> S] : k \in 0..n}

None == <<>>
Some(v) == <<v>>

----------------------------------------------------------------------------
\* The GPX data model as gpxpy hands it over: document -> tracks ->
\* segments -> points, a point having latitude, longitude and an optional
\* elevation.

Pt(lat, lon, ele) == [latitude |-> lat, longitude |-> lon, elevation |-> ele]

\* The points the content documents are built from: present, absent, zero
\* and negative elevations; two points at the same place; latitude and
\* longitude that differ.
Points ==
  { Pt(0, 0, Some(10)), Pt(0, 1, Some(20)), Pt(0, 2, None),
    Pt(1, 0, Some(0)),  Pt(1, 2, Some(-5)), Pt(0, 0, None) }

Segment(pts) == [points |-> pts]
Track(segs) == [segments |-> segs]
Gpx(trks) == [wellformed |-> TRUE, tracks |-> trks]
Malformed == [wellformed |-> FALSE, tracks |-> <<>>]

\* Documents of one track with one segment, over every point sequence.
ContentDocs == { Gpx(<<Track(<<Segment(pts)>>)>>) : pts \in SeqUpTo(Points, MaxLen) }

\* Documents of every shape: counts[t] is the number of segments of track t
\* (zero tracks and tracks of zero segments included); segment s of track t
\* holds (t + s + e) % (MaxShapePts + 1) points, which carry their position.
ShapePoint(t, s, i) == Pt(t, 10 * s + i, IF i % 2 = 0 THEN None ELSE Some(t + s + i))
ShapeSegment(t, s, e) ==
  Segment([i \in 1..((t + s + e) % (MaxShapePts + 1)) |-> ShapePoint(t, s, i)])
ShapeDoc(counts, e) ==
  Gpx([t \in 1..Len(counts) |-> Track([s \in 1..counts[t] |-> ShapeSegment(t, s, e)])])
ShapeDocs ==
  { ShapeDoc(counts, e) : counts \in SeqUpTo(0..MaxSegs, MaxTracks), e \in 0..MaxShapePts }

\* What the input file may hold when it is read.
FileContents == ContentDocs \cup ShapeDocs \cup {Malformed}

----------------------------------------------------------------------------
\* The command line.  argv[1] is sys.argv[0]; sys.argv[k] is argv[k + 1].

Scripts == {"gpx2html", "plot_track_elevation"}

\* Index arguments as typed: character sequences.
IndexTokens ==
  { <<"0">>, <<"1">>, <<"2">>, <<"-", "1">>, <<"-", "3">>, <<"x">>, <<"-">> }

ExistingInput == "track.gpx"
InputPaths == {ExistingInput, "missing.gpx"}
\* "old.out" exists before the run, "new.out" does not.
OutPaths == {"old.out", "new.out"}

FullArgvs ==
  { <<"script.py", f, t, s, o>> :
      f \in InputPaths, t \in IndexTokens, s \in IndexTokens, o \in OutPaths }
Argvs == { SubSeq(a, 1, n) : a \in FullArgvs, n \in 1..5 }

\* sys.argv[k]: IndexError when the list is too short.
HasArg(a, k) == Len(a) >= k + 1
Arg(a, k) == a[k + 1]

\* int(str) on the tokens above: an optional sign, then one or more digits.
DigitChars == {"0", "1", "2", "3", "4", "5", "6", "7", "8", "9"}
DigitVal(c) ==
  CASE c = "0" -> 0 [] c = "1" -> 1 [] c = "2" -> 2 [] c = "3" -> 3 [] c = "4" -> 4
    [] c = "5" -> 5 [] c = "6" -> 6 [] c = "7" -> 7 [] c = "8" -> 8 [] c = "9" -> 9
Unsigned(tok) == IF tok # <<>> /\ tok[1] \in {"-", "+"} THEN Tail(tok) ELSE tok
IsIntLiteral(tok) ==
  /\ Unsigned(tok) # <<>>
  /\ \A i \in 1..Len(Unsigned(tok)) : Unsigned(tok)[i] \in DigitChars
RECURSIVE DigitsValue(_)
DigitsValue(ds) ==
  IF ds = <<>> THEN 0
  ELSE 10 * DigitsValue(SubSeq(ds, 1, Len(ds) - 1)) + DigitVal(ds[Len(ds)])
IntOf(tok) ==
  IF tok[1] = "-" THEN 0 - DigitsValue(Unsigned(tok)) ELSE DigitsValue(Unsigned(tok))

----------------------------------------------------------------------------
\* Python list indexing: lst[i] for -len <= i < len, IndexError otherwise.
PyInRange(lst, i) == 0 - Len(lst) <= i /\ i < Len(lst)
PyIndex(lst, i) == IF i >= 0 THEN lst[i + 1] ELSE lst[Len(lst) + i + 1]


----------------------------------------------------------------------------
\* Pure parts of the scripts.

\* Variant: the pair built as (p.longitude, p.latitude).
CoordinatesSwapped(pts) == [i \in 1..Len(pts) |-> <<pts[i].longitude, pts[i].latitude>>]

\* gpx2html.py:22   [(p.latitude, p.longitude) for p in segment_data.points]
CoordinatesOf(pts) == [i \in 1..Len(pts) |-> <<pts[i].latitude, pts[i].longitude>>]

\* Variant: max(p.elevation or 0, 0), which also zeroes what lies below sea level.
ElevationClamped(p) ==
  IF p.elevation = None THEN 0
  ELSE IF p.elevation[1] < 0 THEN 0 ELSE p.elevation[1]

\* plot_track_elevation.py:26   p.elevation or 0
\* (`or` takes the right operand when the left one is falsy: None and 0)
ElevationOrZero(p) ==
  IF p.elevation = None THEN 0
  ELSE IF p.elevation[1] = 0 THEN 0 ELSE p.elevation[1]

\* plot_track_elevation.py:26   [p.elevation or 0 for p in segment_data.points]
ElevationsOf(pts) == [i \in 1..Len(pts) |-> ElevationOrZero(pts[i])]

\* p.distance_2d(last): gpxpy's horizontal distance, here the Euclidean
\* distance on the grid, in tenths of a unit, rounded down.
ISqrt(n) == CHOOSE r \in 0..(n + 1) : r * r <= n /\ n < (r + 1) * (r + 1)
Distance2d(p, q) ==
  LET dlat == p.latitude - q.latitude
      dlon == p.longitude - q.longitude
  IN ISqrt(100 * (dlat * dlat + dlon * dlon))

\* min(elevation), max(elevation) of a non-empty list.
MinOf(xs) == CHOOSE m \in {xs[i] : i \in 1..Len(xs)} : \A i \in 1..Len(xs) : m <= xs[i]
MaxOf(xs) == CHOOSE m \in {xs[i] : i \in 1..Len(xs)} : \A i \in 1..Len(xs) : m >= xs[i]

\* The generator partial_distances(points).  A generator object is created
\* without running any of the body; each next() runs the body to the next
\* yield, to its end (StopIteration) or to an exception.
NoGen == [state |-> "none", last |-> None, dist |-> 0, idx |-> 0]
NewGen == [state |-> "created", last |-> None, dist |-> 0, idx |-> 0]

\* Variant: `dist = p.distance_2d(last)` in place of `dist += ...`.
GenIterateNoSum(g, pts) ==
  IF g.idx < Len(pts)
  THEN LET p == pts[g.idx + 1]
           d == Distance2d(p, g.last[1])
       IN [outcome |-> "yield", value |-> d,
           gen |-> [state |-> "suspended", last |-> Some(p), dist |-> d, idx |-> g.idx + 1]]
  ELSE [outcome |-> "stop", value |-> 0, gen |-> [g EXCEPT !.state = "exhausted"]]

\* Variant: `last = p` left out, so every distance is taken from points[0].
GenIterateStaleLast(g, pts) ==
  IF g.idx < Len(pts)
  THEN LET p == pts[g.idx + 1]
           d == g.dist + Distance2d(p, g.last[1])
       IN [outcome |-> "yield", value |-> d,
           gen |-> [state |-> "suspended", last |-> g.last, dist |-> d, idx |-> g.idx + 1]]
  ELSE [outcome |-> "stop", value |-> 0, gen |-> [g EXCEPT !.state = "exhausted"]]

\* One turn of `for p in points:` (lines 10-13) from the frame g.
GenIterate(g, pts) ==
  IF g.idx < Len(pts)
  THEN LET p == pts[g.idx + 1]
           d == g.dist + Distance2d(p, g.last[1])
       IN [outcome |-> "yield", value |-> d,
           gen |-> [state |-> "suspended", last |-> Some(p), dist |-> d, idx |-> g.idx + 1]]
  ELSE [outcome |-> "stop", value |-> 0, gen |-> [g EXCEPT !.state = "exhausted"]]

\* Variant: the body guarded by `if not points: return`.
GenNextGuarded(g, pts) ==
  IF g.state = "created"
  THEN IF Len(pts) = 0
       THEN [outcome |-> "stop", value |-> 0, gen |-> [g EXCEPT !.state = "exhausted"]]
       ELSE GenIterate([state |-> "running", last |-> Some(pts[1]), dist |-> 0, idx |-> 0], pts)
  ELSE IF g.state = "suspended"
  THEN GenIterate(g, pts)
  ELSE [outcome |-> "stop", value |-> 0, gen |-> g]

\* next(g): lines 8-9 run on the first call only; points[0] raises IndexError
\* on an empty list.
GenNext(g, pts) ==
  IF g.state = "created"
  THEN IF Len(pts) = 0
       THEN [outcome |-> "raise", value |-> 0, gen |-> [g EXCEPT !.state = "exhausted"]]
       ELSE GenIterate([state |-> "running", last |-> Some(pts[1]), dist |-> 0, idx |-> 0], pts)
  ELSE IF g.state = "suspended"
  THEN GenIterate(g, pts)
  ELSE [outcome |-> "stop", value |-> 0, gen |-> g]

----------------------------------------------------------------------------
VARIABLES
  script,            \* which script runs
  argv,              \* sys.argv
  pc,                \* the statement to execute next, "done" or "failed"
  failedAt,          \* the statement that raised, "none" if none did
  files,             \* the output paths: "absent", "old", "html" or "png"
  handles,           \* file handles the script holds open
  opens,             \* how many times the script opened the input file
  writes,            \* the paths written, in order
  filename, track, segment, output_filename,
  gpx, track_data, segment_data,
  route_map, coordinates,
  elevation, gen, listing, distance_travelled, chart

env == <<script, argv>>
io == <<files, handles, opens, writes>>
args == <<filename, track, segment, output_filename>>
data == <<gpx, track_data, segment_data>>
mapv == <<route_map, coordinates>>
plotv == <<elevation, gen, listing, distance_travelled, chart>>
vars == <<env, pc, failedAt, io, args, data, mapv, plotv>>

\* The statements of each script, in program order.
Program(s) ==
  IF s = "gpx2html"
  THEN <<"create_map", "argv1", "argv2", "argv3", "argv4", "open", "parse",
         "track_data", "segment_data", "coordinates", "polyline", "fit_bounds", "save">>
  ELSE <<"argv1", "argv2", "argv3", "argv4", "open", "parse",
         "track_data", "segment_data", "elevation", "partial_distances", "list",
         "subplots", "fill_between", "formatters", "ylim", "savefig">>

PositionOf(s, step) == CHOOSE i \in 1..Len(Program(s)) : Program(s)[i] = step
After(s, step) ==
  IF PositionOf(s, step) = Len(Program(s)) THEN "done"
  ELSE Program(s)[PositionOf(s, step) + 1]

\* The statement ran to its end: on to the next one.
Goto(step) == pc' = After(script, step) /\ failedAt' = failedAt

\* Variant: the statement wrapped in try/except: pass.
FailSwallowed(step) == pc' = After(script, step) /\ failedAt' = step

\* The statement raised.  Nothing in either script catches an exception: the
\* interpreter prints the traceback and exits non-zero.
Fail(step) == pc' = "failed" /\ failedAt' = step

InitialFiles == [p \in OutPaths |-> IF p = "old.out" THEN "old" ELSE "absent"]

Init ==
  /\ script \in Scripts
  /\ argv \in Argvs
  /\ pc = Program(script)[1]
  /\ failedAt = "none"
  /\ files = InitialFiles
  /\ handles = {}
  /\ opens = 0
  /\ writes = <<>>
  /\ filename = None /\ track = None /\ segment = None /\ output_filename = None
  /\ gpx = None /\ track_data = None /\ segment_data = None
  /\ route_map = None /\ coordinates = None
  /\ elevation = None /\ gen = NoGen /\ listing = <<>>
  /\ distance_travelled = None /\ chart = None

----------------------------------------------------------------------------
\* Statements shared by the two scripts.

\* filename = sys.argv[1]
ReadFilename ==
  /\ pc = "argv1"
  /\ IF HasArg(argv, 1)
     THEN filename' = Some(Arg(argv, 1)) /\ Goto("argv1")
     ELSE filename' = filename /\ Fail("argv1")
  /\ UNCHANGED <<env, io, track, segment, output_filename, data, mapv, plotv>>

\* track = int(sys.argv[2])
ReadTrack ==
  /\ pc = "argv2"
  /\ IF HasArg(argv, 2) /\ IsIntLiteral(Arg(argv, 2))
     THEN track' = Some(IntOf(Arg(argv, 2))) /\ Goto("argv2")
     ELSE track' = track /\ Fail("argv2")
  /\ UNCHANGED <<env, io, filename, segment, output_filename, data, mapv, plotv>>

\* segment = int(sys.argv[3])
ReadSegment ==
  /\ pc = "argv3"
  /\ IF HasArg(argv, 3) /\ IsIntLiteral(Arg(argv, 3))
     THEN segment' = Some(IntOf(Arg(argv, 3))) /\ Goto("argv3")
     ELSE segment' = segment /\ Fail("argv3")
  /\ UNCHANGED <<env, io, filename, track, output_filename, data, mapv, plotv>>

\* output_filename = sys.argv[4]
ReadOutputFilename ==
  /\ pc = "argv4"
  /\ IF HasArg(argv, 4)
     THEN output_filename' = Some(Arg(argv, 4)) /\ Goto("argv4")
     ELSE output_filename' = output_filename /\ Fail("argv4")
  /\ UNCHANGED <<env, io, filename, track, segment, data, mapv, plotv>>

\* with open(filename, 'r') as f:     (FileNotFoundError on a missing file)
InputHandle(path) == [path |-> path, mode |-> "r"]
OpenInput ==
  /\ pc = "open"
  /\ IF filename[1] = ExistingInput
     THEN /\ handles' = handles \cup {InputHandle(filename[1])}
          /\ opens' = opens + 1
          /\ Goto("open")
     ELSE /\ UNCHANGED <<handles, opens>>
          /\ Fail("open")
  /\ UNCHANGED <<env, files, writes, args, data, mapv, plotv>>

\* Variant: f = open(...); gpx = gpxpy.parse(f); f.close() without a with block.
ParseInputNoWith ==
  /\ pc = "parse"
  /\ \E content \in FileContents :
       IF content.wellformed
       THEN /\ gpx' = Some(content)
            /\ handles' = handles \ {InputHandle(filename[1])}
            /\ Goto("parse")
       ELSE gpx' = gpx /\ handles' = handles /\ Fail("parse")
  /\ UNCHANGED <<env, files, opens, writes, args, track_data, segment_data, mapv, plotv>>

\*     gpx = gpxpy.parse(f)
\* and the end of the with block, which closes f whether parse returned or
\* raised.
ParseInput ==
  /\ pc = "parse"
  /\ \E content \in FileContents :
       IF content.wellformed
       THEN gpx' = Some(content) /\ Goto("parse")
       ELSE gpx' = gpx /\ Fail("parse")
  /\ handles' = handles \ {InputHandle(filename[1])}
  /\ UNCHANGED <<env, files, opens, writes, args, track_data, segment_data, mapv, plotv>>

\* Variant: the index taken modulo the number of tracks.
SelectTrackWrapped ==
  /\ pc = "track_data"
  /\ IF Len(gpx[1].tracks) > 0
     THEN /\ track_data' = Some(gpx[1].tracks[(track[1] % Len(gpx[1].tracks)) + 1])
          /\ Goto("track_data")
     ELSE track_data' = track_data /\ Fail("track_data")
  /\ UNCHANGED <<env, io, args, gpx, segment_data, mapv, plotv>>

\* track_data = gpx.tracks[track]
SelectTrack ==
  /\ pc = "track_data"
  /\ IF PyInRange(gpx[1].tracks, track[1])
     THEN track_data' = Some(PyIndex(gpx[1].tracks, track[1])) /\ Goto("track_data")
     ELSE track_data' = track_data /\ Fail("track_data")
  /\ UNCHANGED <<env, io, args, gpx, segment_data, mapv, plotv>>

\* segment_data = track_data.segments[segment]
SelectSegment ==
  /\ pc = "segment_data"
  /\ IF PyInRange(track_data[1].segments, segment[1])
     THEN /\ segment_data' = Some(PyIndex(track_data[1].segments, segment[1]))
          /\ Goto("segment_data")
     ELSE segment_data' = segment_data /\ Fail("segment_data")
  /\ UNCHANGED <<env, io, args, gpx, track_data, mapv, plotv>>

\* Variant: the output path hard-coded.
WriteOutputFixedPath(path, kind) ==
  /\ files' = [files EXCEPT !["old.out"] = kind]
  /\ writes' = Append(writes, "old.out")

\* The library call that writes the output: one open-write-close of path.
WriteOutput(path, kind) ==
  /\ files' = [files EXCEPT ![path] = kind]
  /\ writes' = Append(writes, path)

----------------------------------------------------------------------------
\* gpx2html.py

\* route_map = folium.Map(location=None, tiles='OpenStreetMap', width=1024, height=768)
CreateMap ==
  /\ pc = "create_map"
  /\ route_map' = Some([tiles |-> "OpenStreetMap", width |-> 1024, height |-> 768,
                        children |-> <<>>, bounds |-> None])
  /\ Goto("create_map")
  /\ UNCHANGED <<env, io, args, data, coordinates, plotv>>

\* coordinates = [(p.latitude, p.longitude) for p in segment_data.points]
Coordinates ==
  /\ pc = "coordinates"
  /\ coordinates' = Some(CoordinatesOf(segment_data[1].points))
  /\ Goto("coordinates")
  /\ UNCHANGED <<env, io, args, data, route_map, plotv>>

\* Variant: a polyline layer that accepts an empty list of locations.
PolyLineUnvalidated ==
  /\ pc = "polyline"
  /\ route_map' =
       Some([route_map[1] EXCEPT
               !.children = Append(@, [locations |-> coordinates[1], weight |-> 6])])
  /\ Goto("polyline")
  /\ UNCHANGED <<env, io, args, data, coordinates, plotv>>

\* folium.PolyLine(coordinates, weight=6).add_to(route_map)
\* folium validates the locations of a vector layer and raises ValueError
\* ("Locations is empty.") on an empty list.
PolyLine ==
  /\ pc = "polyline"
  /\ IF Len(coordinates[1]) = 0
     THEN route_map' = route_map /\ Fail("polyline")
     ELSE /\ route_map' =
               Some([route_map[1] EXCEPT
                       !.children = Append(@, [locations |-> coordinates[1], weight |-> 6])])
          /\ Goto("polyline")
  /\ UNCHANGED <<env, io, args, data, coordinates, plotv>>

\* route_map.fit_bounds(coordinates)
FitBounds ==
  /\ pc = "fit_bounds"
  /\ route_map' = Some([route_map[1] EXCEPT !.bounds = Some(coordinates[1])])
  /\ Goto("fit_bounds")
  /\ UNCHANGED <<env, io, args, data, coordinates, plotv>>

\* route_map.save(output_filename)
Save ==
  /\ pc = "save"
  /\ WriteOutput(output_filename[1], "html")
  /\ Goto("save")
  /\ UNCHANGED <<env, handles, opens, args, data, mapv, plotv>>

----------------------------------------------------------------------------
\* plot_track_elevation.py

\* elevation = [p.elevation or 0 for p in segment_data.points]
Elevation ==
  /\ pc = "elevation"
  /\ elevation' = Some(ElevationsOf(segment_data[1].points))
  /\ Goto("elevation")
  /\ UNCHANGED <<env, io, args, data, mapv, gen, listing, distance_travelled, chart>>

\* partial_distances(segment_data.points): the call makes the generator.
CallPartialDistances ==
  /\ pc = "partial_distances"
  /\ gen' = NewGen
  /\ listing' = <<>>
  /\ Goto("partial_distances")
  /\ UNCHANGED <<env, io, args, data, mapv, elevation, distance_travelled, chart>>

\* distance_travelled = list(...): list() calls next() until StopIteration.
ListYield ==
  /\ pc = "list"
  /\ LET r == GenNext(gen, segment_data[1].points) IN
       /\ r.outcome = "yield"
       /\ gen' = r.gen
       /\ listing' = Append(listing, r.value)
  /\ UNCHANGED <<env, pc, failedAt, io, args, data, mapv, elevation, distance_travelled, chart>>

ListStop ==
  /\ pc = "list"
  /\ LET r == GenNext(gen, segment_data[1].points) IN
       /\ r.outcome = "stop"
       /\ gen' = r.gen
       /\ distance_travelled' = Some(listing)
  /\ Goto("list")
  /\ UNCHANGED <<env, io, args, data, mapv, elevation, listing, chart>>

ListRaise ==
  /\ pc = "list"
  /\ LET r == GenNext(gen, segment_data[1].points) IN
       /\ r.outcome = "raise"
       /\ gen' = r.gen
  /\ Fail("list")
  /\ UNCHANGED <<env, io, args, data, mapv, elevation, listing, distance_travelled, chart>>

\* fig, ax = plt.subplots(figsize=(9, 3))
Subplots ==
  /\ pc = "subplots"
  /\ chart' = Some([figsize |-> <<9, 3>>, x |-> None, y |-> None,
                    formatters |-> FALSE, ylim |-> None])
  /\ Goto("subplots")
  /\ UNCHANGED <<env, io, args, data, mapv, elevation, gen, listing, distance_travelled>>

\* plt.fill_between(distance_travelled, elevation)
FillBetween ==
  /\ pc = "fill_between"
  /\ chart' = Some([chart[1] EXCEPT !.x = distance_travelled, !.y = elevation])
  /\ Goto("fill_between")
  /\ UNCHANGED <<env, io, args, data, mapv, elevation, gen, listing, distance_travelled>>

\* ax.xaxis.set_major_formatter(...); ax.yaxis.set_major_formatter(...)
SetFormatters ==
  /\ pc = "formatters"
  /\ chart' = Some([chart[1] EXCEPT !.formatters = TRUE])
  /\ Goto("formatters")
  /\ UNCHANGED <<env, io, args, data, mapv, elevation, gen, listing, distance_travelled>>

\* Variant: plt.ylim(0, max(elevation)).
YlimFromZero ==
  /\ pc = "ylim"
  /\ IF Len(elevation[1]) = 0
     THEN chart' = chart /\ Fail("ylim")
     ELSE /\ chart' = Some([chart[1] EXCEPT !.ylim = Some(<<0, MaxOf(elevation[1])>>)])
          /\ Goto("ylim")
  /\ UNCHANGED <<env, io, args, data, mapv, elevation, gen, listing, distance_travelled>>

\* plt.ylim(min(elevation), max(elevation))   (ValueError on an empty list)
Ylim ==
  /\ pc = "ylim"
  /\ IF Len(elevation[1]) = 0
     THEN chart' = chart /\ Fail("ylim")
     ELSE /\ chart' = Some([chart[1] EXCEPT
                              !.ylim = Some(<<MinOf(elevation[1]), MaxOf(elevation[1])>>)])
          /\ Goto("ylim")
  /\ UNCHANGED <<env, io, args, data, mapv, elevation, gen, listing, distance_travelled>>

\* plt.savefig(output_filename, dpi=100)
Savefig ==
  /\ pc = "savefig"
  /\ WriteOutput(output_filename[1], "png")
  /\ Goto("savefig")
  /\ UNCHANGED <<env, handles, opens, args, data, mapv, plotv>>

----------------------------------------------------------------------------
Next ==
  \/ ReadFilename \/ ReadTrack \/ ReadSegment \/ ReadOutputFilename
  \/ OpenInput \/ ParseInput \/ SelectTrack \/ SelectSegment
  \/ CreateMap \/ Coordinates \/ PolyLine \/ FitBounds \/ Save
  \/ Elevation \/ CallPartialDistances \/ ListYield \/ ListStop \/ ListRaise
  \/ Subplots \/ FillBetween \/ SetFormatters \/ Ylim \/ Savefig

Spec == Init /\ [][Next]_vars

----------------------------------------------------------------------------
\* Properties.

Terminated == pc \in {"done", "failed"}
ArgSteps == {"argv1", "argv2", "argv3", "argv4"}
Selected == segment_data[1].points
ExamplePoints == <<Pt(0, 0, Some(10)), Pt(0, 1, Some(20)), Pt(0, 2, None)>>

\* 0 <= t < len(tracks) and 0 <= s < len(tracks[t].segments)
ZeroBasedValid(doc, t, s) ==
  /\ 0 <= t /\ t < Len(doc.tracks)
  /\ 0 <= s /\ s < Len(doc.tracks[t + 1].segments)

\* -len(tracks) <= t < len(tracks) and -len(segments) <= s < len(segments),
\* the segments being those of the track that t designates.
PySelectable(doc, t, s) ==
  /\ 0 - Len(doc.tracks) <= t /\ t < Len(doc.tracks)
  /\ LET trk == doc.tracks[IF t < 0 THEN Len(doc.tracks) + t + 1 ELSE t + 1]
     IN 0 - Len(trk.segments) <= s /\ s < Len(trk.segments)

IndicesKnown == gpx # None /\ track # None /\ segment # None

\* C1 as stated: with indices t, s that do not satisfy 0 <= t < len(tracks)
\* and 0 <= s < len(tracks[t].segments), negative ones included, the run does
\* not succeed and the output file is left as it was.
C1_Original ==
  (IndicesKnown /\ ~ZeroBasedValid(gpx[1], track[1], segment[1]))
    => (pc # "done" /\ files = InitialFiles /\ writes = <<>>)

\* C1 amended: with indices t, s that do not satisfy -len(tracks) <= t <
\* len(tracks) and -len(segments) <= s < len(segments) (zero tracks and a
\* track of zero segments included), the run never gets past the selection,
\* does not succeed, and the output file is neither created nor overwritten.
C1_OutOfRangeFails ==
  (IndicesKnown /\ ~PySelectable(gpx[1], track[1], segment[1]))
    => /\ pc \in {"track_data", "segment_data", "failed"}
       /\ pc = "failed" => failedAt \in {"track_data", "segment_data"}
       /\ files = InitialFiles
       /\ writes = <<>>

C1_Witness ==
  /\ IndicesKnown
  /\ pc = "failed" /\ failedAt = "segment_data"
  /\ track[1] = -1 /\ segment[1] = -3
  /\ files = InitialFiles

\* C2: when the selected segment has no points the run fails before the save
\* step (at the polyline in the map renderer, at list(partial_distances(...))
\* in the elevation renderer) and the output file is neither created nor
\* overwritten.
C2_EmptySegmentFails ==
  (segment_data # None /\ Len(Selected) = 0)
    => /\ pc \in {"coordinates", "polyline", "elevation", "partial_distances", "list", "failed"}
       /\ pc = "failed" => failedAt \in {"polyline", "list"}
       /\ files = InitialFiles
       /\ writes = <<>>

C2_Witness ==
  /\ segment_data # None /\ Len(Selected) = 0
  /\ script = "plot_track_elevation"
  /\ pc = "failed" /\ failedAt = "list"
  /\ elevation = Some(<<>>)
  /\ files = InitialFiles

NonDecreasing(xs) == \A i \in 1..Len(xs) : \A j \in i..Len(xs) : xs[i] <= xs[j]

\* C3: what partial_distances has yielded so far, and the finished list, are
\* non-decreasing and start with exactly 0.
C3_DistancesMonotone ==
  /\ NonDecreasing(listing)
  /\ listing # <<>> => listing[1] = 0
  /\ distance_travelled # None =>
       /\ NonDecreasing(distance_travelled[1])
       /\ Len(distance_travelled[1]) > 0
       /\ distance_travelled[1][1] = 0

C3_Witness ==
  /\ distance_travelled # None
  /\ Len(distance_travelled[1]) = 3
  /\ distance_travelled[1][1] = 0
  /\ distance_travelled[1][2] > 0
  /\ distance_travelled[1][3] = distance_travelled[1][2]

\* C4: the elevation series has one entry per point of the selected segment,
\* in order: 0 for a point without elevation, the point's elevation otherwise
\* (0 and negative elevations included).
C4_ElevationZeroFilled ==
  elevation # None =>
    /\ Len(elevation[1]) = Len(Selected)
    /\ \A i \in 1..Len(Selected) :
         /\ Selected[i].elevation = None => elevation[1][i] = 0
         /\ Selected[i].elevation # None => elevation[1][i] = Selected[i].elevation[1]

C4_Witness ==
  /\ elevation # None
  /\ Len(Selected) = 3
  /\ Selected[1].elevation = None /\ elevation[1][1] = 0
  /\ Selected[2].elevation = Some(0) /\ elevation[1][2] = 0
  /\ Selected[3].elevation = Some(-5) /\ elevation[1][3] = -5

\* The zero-filled elevations of the selected segment, from the points.
ZeroFilled == { IF Selected[i].elevation = None THEN 0 ELSE Selected[i].elevation[1] :
                  i \in 1..Len(Selected) }

\* C5: once plt.ylim has run, the limits asked for are (lo, hi), lo the least
\* and hi the greatest zero-filled elevation of the whole segment; the
\* segment with elevations 10, 20, None gets (0, 20).
C5_YlimIsMinMax ==
  (script = "plot_track_elevation" /\ pc \in {"savefig", "done"})
    => /\ chart[1].ylim # None
       /\ LET lo == chart[1].ylim[1][1]
              hi == chart[1].ylim[1][2]
          IN /\ lo \in ZeroFilled /\ hi \in ZeroFilled
             /\ \A v \in ZeroFilled : lo <= v /\ v <= hi
       /\ Selected = ExamplePoints => chart[1].ylim = Some(<<0, 20>>)

C5_Witness ==
  /\ script = "plot_track_elevation" /\ pc = "done"
  /\ Selected = ExamplePoints
  /\ chart[1].ylim = Some(<<0, 20>>)

\* C6: the locations of the polyline, and the bounds given to fit_bounds, are
\* the (latitude, longitude) pairs of the points of the selected segment, one
\* per point, in the order of the points.
SamePath(locs) ==
  /\ Len(locs) = Len(Selected)
  /\ \A i \in 1..Len(Selected) :
       locs[i] = <<Selected[i].latitude, Selected[i].longitude>>

C6_PathIsPointSequence ==
  /\ coordinates # None => SamePath(coordinates[1])
  /\ (script = "gpx2html" /\ pc \in {"fit_bounds", "save", "done"})
       => /\ Len(route_map[1].children) = 1
          /\ SamePath(route_map[1].children[1].locations)
  /\ (script = "gpx2html" /\ pc \in {"save", "done"})
       => /\ route_map[1].bounds # None
          /\ SamePath(route_map[1].bounds[1])

C6_Witness ==
  /\ script = "gpx2html" /\ pc = "done"
  /\ Selected = <<Pt(1, 0, Some(0)), Pt(0, 2, None), Pt(0, 1, Some(20))>>
  /\ route_map[1].children[1].locations = <<<<1, 0>>, <<0, 2>>, <<0, 1>>>>

\* Every statement before the save has run to its end.
ReadyToSave ==
  /\ failedAt = "none"
  /\ output_filename # None /\ gpx # None /\ segment_data # None
  /\ IF script = "gpx2html"
     THEN /\ coordinates # None
          /\ Len(route_map[1].children) = 1
          /\ route_map[1].bounds # None
     ELSE /\ elevation # None /\ distance_travelled # None
          /\ chart # None /\ chart[1].x # None /\ chart[1].formatters
          /\ chart[1].ylim # None

\* C7: a run writes at most one file; the write is to sys.argv[4] and to no
\* other path, comes after every other statement has succeeded and is the
\* last thing the run does; a run that succeeds has written exactly once.
C7_OneWriteLast ==
  /\ Len(writes) <= 1
  /\ writes # <<>> =>
       /\ Len(argv) = 5 /\ writes[1] = argv[5]
       /\ pc = "done"
       /\ ReadyToSave
       /\ files[argv[5]] = (IF script = "gpx2html" THEN "html" ELSE "png")
  /\ \A p \in OutPaths : (writes = <<>> \/ p # writes[1]) => files[p] = InitialFiles[p]
  /\ pc = "done" => Len(writes) = 1

C7_Witness ==
  /\ pc = "done"
  /\ writes = <<"new.out">>
  /\ files["new.out"] = "png"
  /\ files["old.out"] = "old"

\* Every statement's precondition held: the run had nothing to fail on.
EveryStepSucceeded ==
  /\ Len(argv) = 5
  /\ IsIntLiteral(argv[3]) /\ IsIntLiteral(argv[4])
  /\ argv[2] = ExistingInput
  /\ gpx # None /\ gpx[1].wellformed
  /\ PySelectable(gpx[1], track[1], segment[1])
  /\ Len(Selected) > 0

\* C8: an exception is never caught: the run is in the failed state exactly
\* when a statement has raised, nothing changes after that, a run that
\* succeeds has had no failing statement, and a failure in reading the
\* arguments comes before the input file is opened.
C8_FailuresAreFinal ==
  /\ [](/\ failedAt # "none" <=> pc = "failed"
        /\ failedAt \in ArgSteps => (opens = 0 /\ handles = {} /\ gpx = None)
        /\ pc = "done" => EveryStepSucceeded)
  /\ [][failedAt # "none" => UNCHANGED vars]_vars

C8_Witness ==
  /\ pc = "failed" /\ failedAt = "argv3"
  /\ Len(argv) = 5 /\ argv[4] = <<"x">>
  /\ track # None /\ segment = None
  /\ opens = 0

\* C9 as stated: the handle the script holds through its with block is the
\* output file, opened for exclusive writing.
C9_Original ==
  \A h \in handles : h.mode = "x" /\ output_filename # None /\ h.path = output_filename[1]

\* C9 amended: the one handle the script itself acquires is the input file,
\* opened for reading by the with block around the parse and closed when the
\* block is left, by return or by exception; the output file is opened and
\* closed inside the save call.  No handle is open when the run has ended.
C9_InputHandleScoped ==
  /\ \A h \in handles : h.mode = "r" /\ filename # None /\ h.path = filename[1]
  /\ handles # {} <=> pc = "parse"
  /\ opens <= 1
  /\ Terminated => handles = {}

C9_Witness ==
  /\ pc = "failed" /\ failedAt = "parse"
  /\ opens = 1 /\ handles = {}

\* The sum over k = 2..i of the distance between points k-1 and k.
RECURSIVE CumulativeDistance(_, _)
CumulativeDistance(pts, i) ==
  IF i <= 1 THEN 0
  ELSE CumulativeDistance(pts, i - 1) + Distance2d(pts[i - 1], pts[i])

\* C10: for a non-empty segment partial_distances yields one value per point,
\* in order, the i-th being the sum of the distances between consecutive
\* points up to point i (0 for the first); after the last point the
\* generator is exhausted and a further next() yields nothing; the finished
\* list is what the chart gets as x.
C10_CumulativeDistances ==
  (segment_data # None /\ Len(Selected) > 0) =>
    /\ Len(listing) <= Len(Selected)
    /\ \A i \in 1..Len(listing) : listing[i] = CumulativeDistance(Selected, i)
    /\ gen.state \in {"created", "suspended"} => gen.idx = Len(listing)
    /\ gen.state = "exhausted" =>
         /\ GenNext(gen, Selected).outcome = "stop"
         /\ GenNext(gen, Selected).gen = gen
         /\ distance_travelled # None
    /\ distance_travelled # None =>
         /\ gen.state = "exhausted"
         /\ Len(distance_travelled[1]) = Len(Selected)
         /\ distance_travelled[1] = listing
    /\ (chart # None /\ chart[1].x # None) => chart[1].x = distance_travelled

C10_Witness ==
  /\ script = "plot_track_elevation" /\ pc = "done"
  /\ Selected = ExamplePoints
  /\ distance_travelled = Some(<<0, 10, 20>>)
  /\ gen.state = "exhausted"

============================================================================
